---- MODULE Spec2Model ----
(***************************************************************************)
(* Model of notifier/newposts.py: get_new_posts and                        *)
(* fetch_posts_with_context (delta computation, crawl planning, the        *)
(* dedup-gated task loop).  Thread ids, post ids and wiki ids are small    *)
(* naturals; the post id None of a full-thread page is the value None.     *)
(* The database (find_new_posts, find_new_threads, store_thread,           *)
(* store_post, get_supported_wikis), the remote source (connection.thread) *)
(* and the feed (feedparser.parse, parse_thread_url) are not part of the   *)
(* listed sources; they are modelled from their documented interface.      *)
(***************************************************************************)
EXTENDS Naturals, Integers, Sequences, FiniteSets, TLC

\* ---- bounds of the model ----
NumThreads == 2
NumPosts == 3
NumWikis == 2
MaxFeed == 2
MaxYield == 2
NumData == 2

Threads == 1..NumThreads
Posts == 1..NumPosts
Wikis == 1..NumWikis

\* post_id None (newposts.py:46-50): not a post id
None == 0

VARIABLES
    pc,                        \* position in get_new_posts / fetch_posts_with_context
    wikis,                     \* wikis still to be visited by the for loop of get_new_posts
    wiki_id,                   \* the wiki of the running pass (0: none)
    knownPosts,                \* database: post ids recorded
    knownThreads,              \* database: thread ids recorded
    feed,                      \* the list returned by fetch_new_posts_rss, until new_posts is planned
    unknown_entries,           \* the feed entries of this pass whose post id was not recorded
    new_posts,                 \* local new_posts
    new_thread_ids,            \* local new_thread_ids
    threads_pages_to_get,      \* local threads_pages_to_get
    idx,                       \* position of the for loop over threads_pages_to_get (1-based)
    posts_already_seen,        \* local posts_already_seen (membership only)
    full_threads_already_seen, \* local full_threads_already_seen (membership only)
    post_index,                \* number of items consumed from the running connection.thread generator
    yielded,                   \* post ids yielded by the running generator
    outcome,                   \* per visited task of the pass: "skip" or "fetch"
    known0,                    \* knownPosts when the pass started
    stored_posts,              \* post ids passed to store_post in this pass
    stored_threads,            \* thread ids passed to store_thread in this pass
    faithful,                  \* every exhausted fetch of this pass contained the posts it was made for
    failure,                   \* "none", or which call raised: "feed", "item", "remote", "storage"
    unvisited,                 \* tasks of the plan not yet visited when an exception left the pass
    passes,                    \* the wikis fetch_posts_with_context was invoked for, in order
    lost_entries,              \* the well-formed items of a feed whose parsing raised
    tc,                        \* the state of a call of try_cache
    gnp                        \* the state of a call of get_new_posts_for_user

vars == <<pc, wikis, wiki_id, knownPosts, knownThreads, feed,
          unknown_entries, new_posts,
          new_thread_ids, threads_pages_to_get, idx, posts_already_seen,
          full_threads_already_seen, post_index, yielded, outcome, known0,
          stored_posts, stored_threads, faithful, failure, unvisited,
          passes, lost_entries, tc, gnp>>

db == <<knownPosts, knownThreads>>
locals == <<feed, unknown_entries, new_posts, new_thread_ids, threads_pages_to_get, idx,
            posts_already_seen, full_threads_already_seen, post_index,
            yielded, outcome, known0, stored_posts, stored_threads, faithful>>

\* ---- helpers ----
Range(s) == {s[i] : i \in 1..Len(s)}
SeqsUpTo(S, n) == UNION {[1..k -> S] : k \in 0..n}
\* a post belongs to one thread: the permalink of post p names thread
\* ThreadOf(p); with more posts than threads some thread has several posts
ThreadOf(p) == ((p - 1) % NumThreads) + 1
\* the (thread id, post id) pairs a feed item can carry
Entries == {<<ThreadOf(p), p>> : p \in Posts}
Feeds == SeqsUpTo(Entries, MaxFeed)
\* a feed item whose permalink parse_thread_url cannot parse
Malformed == <<None, None>>
\* the feeds of which at least one item is malformed
MalformedFeeds ==
    {f \in SeqsUpTo(Entries \cup {Malformed}, MaxFeed) : Malformed \in Range(f)}

\* ---- database interface ----
\* find_new_posts(ids): the ids not already recorded
find_new_posts(ids) == {p \in ids : p \notin knownPosts}
\* find_new_threads(ids): the ids not already recorded
find_new_threads(ids) == {t \in ids : t \notin knownThreads}

\* ---- fetch_posts_with_context, pure parts ----
\* line 40: the condition of the list comprehension
KeepPost(post, new_post_ids) == post[2] \notin new_post_ids
\* lines 37-40
FilterNewPosts(posts) ==
    LET new_post_ids == find_new_posts({posts[i][2] : i \in 1..Len(posts)})
        Keep(post) == KeepPost(post, new_post_ids)
    IN  SelectSeq(posts, Keep)

PlanTaskByPostId(entry, newThreadIds) ==
    <<entry[1], IF entry[2] \in newThreadIds THEN None ELSE entry[2]>>
PlanTaskInverted(entry, newThreadIds) ==
    <<entry[1], IF entry[1] \notin newThreadIds THEN None ELSE entry[2]>>
\* lines 49-52: one element of the list comprehension
PlanTask(entry, newThreadIds) ==
    <<entry[1], IF entry[1] \in newThreadIds THEN None ELSE entry[2]>>
UnsortedPlan(entries, newThreadIds) ==
    [i \in 1..Len(entries) |-> PlanTask(entries[i], newThreadIds)]

SortKeyInverted(page) == page[2] = None
\* line 55: key=lambda page: page[1] is not None
SortKey(page) == page[2] # None
KeyLessOrEqual(a, b) == ~a \/ b
\* comparison of two keys: False < True
KeyLess(a, b) == ~a /\ b
\* list.sort: stable; an element goes before the first element whose key is
\* strictly greater than its own
RECURSIVE InsertByKey(_, _)
InsertByKey(sorted, x) ==
    IF sorted = <<>> THEN <<x>>
    ELSE IF KeyLess(SortKey(x), SortKey(Head(sorted)))
         THEN <<x>> \o sorted
         ELSE <<Head(sorted)>> \o InsertByKey(Tail(sorted), x)
RECURSIVE SortPages(_)
SortPages(s) ==
    IF s = <<>> THEN <<>>
    ELSE InsertByKey(SortPages(SubSeq(s, 1, Len(s) - 1)), s[Len(s)])

\* lines 49-55
Plan(entries, newThreadIds) == SortPages(UnsortedPlan(entries, newThreadIds))

SkipFullThreadAlways(page, fullSeen) == page[2] = None
SkipFullThreadNever(page, fullSeen) == FALSE
SkipPostInverted(page, postsSeen) == page[2] # None /\ page[2] \notin postsSeen
\* lines 66 and 78: the two skip conditions
SkipFullThread(page, fullSeen) == page[2] = None /\ page[1] \in fullSeen
SkipPost(page, postsSeen) == page[2] # None /\ page[2] \in postsSeen
ShouldSkip(page, postsSeen, fullSeen) ==
    SkipFullThread(page, fullSeen) \/ SkipPost(page, postsSeen)

MarkFullThreadAlways(page, fullSeen) == fullSeen \cup {page[1]}
MarkFullThreadNever(page, fullSeen) == fullSeen
\* lines 125-127
MarkFullThread(page, fullSeen) ==
    IF page[2] = None THEN fullSeen \cup {page[1]} ELSE fullSeen

CurrentPage == threads_pages_to_get[idx]

\* ---- state machine ----
\* no call of try_cache is running
TcIdle == [pc |-> "idle"]
\* no call of get_new_posts_for_user is running
GnpIdle == [pc |-> "idle"]

NoLocals ==
    /\ feed = <<>> /\ unknown_entries = {}
    /\ new_posts = <<>> /\ new_thread_ids = {}
    /\ threads_pages_to_get = <<>> /\ idx = 1
    /\ posts_already_seen = {} /\ full_threads_already_seen = {}
    /\ post_index = 0 /\ yielded = {} /\ outcome = <<>>
    /\ known0 = {} /\ stored_posts = {} /\ stored_threads = {}
    /\ faithful = TRUE

Init ==
    /\ pc = "wikis"
    /\ wikis = [i \in 1..NumWikis |-> i]
    /\ wiki_id = 0
    /\ knownPosts \in SUBSET Posts
    /\ knownThreads \in SUBSET Threads
    /\ NoLocals
    /\ failure = "none"
    /\ unvisited = 0
    /\ passes = <<>>
    /\ lost_entries = <<>>
    /\ tc = TcIdle
    /\ gnp = GnpIdle

\* fetch_posts_with_context returns or is left by an exception: its locals
\* (and the bookkeeping of the pass) are discarded
LeaveFrame ==
    /\ feed' = <<>> /\ unknown_entries' = {}
    /\ new_posts' = <<>> /\ new_thread_ids' = {}
    /\ threads_pages_to_get' = <<>> /\ idx' = 1
    /\ posts_already_seen' = {} /\ full_threads_already_seen' = {}
    /\ post_index' = 0 /\ yielded' = {} /\ outcome' = <<>>
    /\ known0' = {} /\ stored_posts' = {} /\ stored_threads' = {}
    /\ faithful' = TRUE

\* get_new_posts, lines 20-22: next iteration of the loop over the wikis
NextWiki ==
    /\ pc = "wikis" /\ wikis # <<>>
    /\ wiki_id' = Head(wikis)
    /\ wikis' = Tail(wikis)
    /\ known0' = knownPosts
    /\ pc' = "rss"
    /\ UNCHANGED <<db, feed, unknown_entries, new_posts, new_thread_ids, threads_pages_to_get,
                   idx, posts_already_seen, full_threads_already_seen,
                   post_index, yielded, outcome, stored_posts, stored_threads,
                   faithful, failure, unvisited>>
    /\ passes' = Append(passes, Head(wikis))
    /\ UNCHANGED <<lost_entries, tc, gnp>>

\* get_new_posts, line 20: the loop over the wikis is exhausted
Finish ==
    /\ pc = "wikis" /\ wikis = <<>>
    /\ pc' = "done"
    /\ UNCHANGED <<wikis, wiki_id, db, locals, failure, unvisited>>
    /\ UNCHANGED <<passes, lost_entries, tc, gnp>>

\* line 31, fetch_new_posts_rss (lines 169-184) returns the parsed entries
FetchNewPostsRss ==
    /\ pc = "rss"
    /\ \E f \in Feeds :
        /\ feed' = f /\ new_posts' = f
        /\ unknown_entries' = {e \in Range(f) : e[2] \notin knownPosts}
    /\ pc' = "delta"
    /\ UNCHANGED <<wikis, wiki_id, db, new_thread_ids, threads_pages_to_get,
                   idx, posts_already_seen, full_threads_already_seen,
                   post_index, yielded, outcome, known0, stored_posts,
                   stored_threads, faithful, failure, unvisited>>
    /\ UNCHANGED <<passes, lost_entries, tc, gnp>>

\* lines 173-183: feedparser.parse raises, the handler logs and falls
\* through to feed["entries"] with feed unbound: the error leaves the pass
FeedParseRaises ==
    /\ pc = "rss"
    /\ pc' = "crashed" /\ failure' = "feed"
    /\ unvisited' = 0
    /\ LeaveFrame
    /\ UNCHANGED <<wikis, wiki_id, db>>
    /\ UNCHANGED <<passes, lost_entries, tc, gnp>>

\* lines 180-184: parse_thread_url raises on an item of the feed; the list
\* comprehension has no handler, the error leaves fetch_new_posts_rss and
\* the pass, and the items already parsed are lost with it
ParseThreadUrlRaises ==
    /\ pc = "rss"
    /\ \E f \in MalformedFeeds :
        LET WellFormed(item) == item # Malformed
        IN  lost_entries' = SelectSeq(f, WellFormed)
    /\ pc' = "crashed" /\ failure' = "item"
    /\ unvisited' = 0
    /\ LeaveFrame
    /\ UNCHANGED <<wikis, wiki_id, db, passes, tc, gnp>>

\* lines 37-40
FindNewPosts ==
    /\ pc = "delta"
    /\ new_posts' = FilterNewPosts(new_posts)
    /\ pc' = "plan"
    /\ UNCHANGED <<wikis, wiki_id, db, feed, unknown_entries, new_thread_ids,
                   threads_pages_to_get, idx, posts_already_seen,
                   full_threads_already_seen, post_index, yielded, outcome,
                   known0, stored_posts, stored_threads, faithful, failure, unvisited>>
    /\ UNCHANGED <<passes, lost_entries, tc, gnp>>

\* lines 42-59
PlanPages ==
    /\ pc = "plan"
    /\ LET ids == find_new_threads({new_posts[i][1] : i \in 1..Len(new_posts)})
       IN  /\ new_thread_ids' = ids
           /\ threads_pages_to_get' = Plan(new_posts, ids)
    /\ posts_already_seen' = {} /\ full_threads_already_seen' = {}
    /\ idx' = 1
    /\ feed' = <<>>
    /\ pc' = "tasks"
    /\ UNCHANGED <<wikis, wiki_id, db, unknown_entries, new_posts, post_index, yielded,
                   outcome, known0, stored_posts, stored_threads, faithful,
                   failure, unvisited>>
    /\ UNCHANGED <<passes, lost_entries, tc, gnp>>

SkipTaskFallsThrough ==
    /\ pc = "tasks" /\ idx <= Len(threads_pages_to_get)
    /\ ShouldSkip(CurrentPage, posts_already_seen, full_threads_already_seen)
    /\ pc' = "stream"
    /\ post_index' = 0 /\ yielded' = {}
    /\ outcome' = Append(outcome, "fetch")
    /\ UNCHANGED <<wikis, wiki_id, db, feed, unknown_entries, new_posts,
                   new_thread_ids, threads_pages_to_get, idx,
                   posts_already_seen, full_threads_already_seen, known0,
                   stored_posts, stored_threads, faithful, failure, unvisited,
                   passes, lost_entries, tc, gnp>>

\* lines 65-90: the task is skipped (continue)
SkipTask ==
    /\ pc = "tasks" /\ idx <= Len(threads_pages_to_get)
    /\ ShouldSkip(CurrentPage, posts_already_seen, full_threads_already_seen)
    /\ idx' = idx + 1
    /\ outcome' = Append(outcome, "skip")
    /\ UNCHANGED <<pc, wikis, wiki_id, db, feed, unknown_entries, new_posts, new_thread_ids,
                   threads_pages_to_get, posts_already_seen,
                   full_threads_already_seen, post_index, yielded, known0,
                   stored_posts, stored_threads, faithful, failure, unvisited>>
    /\ UNCHANGED <<passes, lost_entries, tc, gnp>>

\* lines 91-96: connection.thread(wiki_id, thread_id, post_id) is invoked
StartFetch ==
    /\ pc = "tasks" /\ idx <= Len(threads_pages_to_get)
    /\ ~ShouldSkip(CurrentPage, posts_already_seen, full_threads_already_seen)
    /\ pc' = "stream"
    /\ post_index' = 0 /\ yielded' = {}
    /\ outcome' = Append(outcome, "fetch")
    /\ UNCHANGED <<wikis, wiki_id, db, feed, unknown_entries, new_posts, new_thread_ids,
                   threads_pages_to_get, idx, posts_already_seen,
                   full_threads_already_seen, known0, stored_posts,
                   stored_threads, faithful, failure, unvisited>>
    /\ UNCHANGED <<passes, lost_entries, tc, gnp>>

\* lines 98-119: the first item is the thread meta; store_thread
YieldMeta ==
    /\ pc = "stream" /\ post_index = 0
    /\ knownThreads' = knownThreads \cup {CurrentPage[1]}
    /\ stored_threads' = stored_threads \cup {CurrentPage[1]}
    /\ post_index' = 1
    /\ UNCHANGED <<pc, wikis, wiki_id, knownPosts, feed, unknown_entries, new_posts,
                   new_thread_ids, threads_pages_to_get, idx,
                   posts_already_seen, full_threads_already_seen, yielded,
                   outcome, known0, stored_posts, faithful, failure, unvisited>>
    /\ UNCHANGED <<passes, lost_entries, tc, gnp>>

\* a variant that marks the post seen without passing it to store_post
YieldPostSeenOnly ==
    /\ pc = "stream" /\ post_index >= 1 /\ post_index <= MaxYield
    /\ \E p \in Posts \ yielded :
        /\ posts_already_seen' = posts_already_seen \cup {p}
        /\ yielded' = yielded \cup {p}
    /\ post_index' = post_index + 1
    /\ UNCHANGED <<pc, wikis, wiki_id, knownPosts, knownThreads, feed,
                   unknown_entries, new_posts, new_thread_ids,
                   threads_pages_to_get, idx, full_threads_already_seen,
                   outcome, known0, stored_posts, stored_threads, faithful,
                   failure, unvisited>>
    /\ UNCHANGED <<passes, lost_entries, tc, gnp>>

\* lines 120-124: a further item is a post; store_post, mark it seen
YieldPost ==
    /\ pc = "stream" /\ post_index >= 1 /\ post_index <= MaxYield
    /\ \E p \in Posts \ yielded :
        /\ knownPosts' = knownPosts \cup {p}
        /\ stored_posts' = stored_posts \cup {p}
        /\ posts_already_seen' = posts_already_seen \cup {p}
        /\ yielded' = yielded \cup {p}
    /\ post_index' = post_index + 1
    /\ UNCHANGED <<pc, wikis, wiki_id, knownThreads, feed, unknown_entries, new_posts,
                   new_thread_ids, threads_pages_to_get, idx,
                   full_threads_already_seen, outcome, known0,
                   stored_threads, faithful, failure, unvisited>>
    /\ UNCHANGED <<passes, lost_entries, tc, gnp>>

\* the posts a fetch for page is made for: the targeted post, or for a full
\* thread the unrecorded posts the feed lists in that thread
Wanted(page) ==
    IF page[2] # None THEN {page[2]}
    ELSE {e[2] : e \in {u \in unknown_entries : u[1] = page[1]}}

\* lines 125-151: the generator is exhausted; record the full thread
Exhausted ==
    /\ pc = "stream" /\ post_index >= 1
    /\ full_threads_already_seen' =
          MarkFullThread(CurrentPage, full_threads_already_seen)
    /\ faithful' = (faithful /\ Wanted(CurrentPage) \subseteq yielded)
    /\ idx' = idx + 1
    /\ post_index' = 0 /\ yielded' = {}
    /\ pc' = "tasks"
    /\ UNCHANGED <<wikis, wiki_id, db, feed, unknown_entries, new_posts, new_thread_ids,
                   threads_pages_to_get, posts_already_seen, outcome, known0,
                   stored_posts, stored_threads, failure, unvisited>>
    /\ UNCHANGED <<passes, lost_entries, tc, gnp>>

\* lines 95-97: connection.thread raises while being iterated; nothing in
\* fetch_posts_with_context or get_new_posts catches it
RemoteRaises ==
    /\ pc = "stream"
    /\ pc' = "crashed" /\ failure' = "remote"
    /\ unvisited' = Len(threads_pages_to_get) - idx
    /\ LeaveFrame
    /\ UNCHANGED <<wikis, wiki_id, db>>
    /\ UNCHANGED <<passes, lost_entries, tc, gnp>>

StorageRaisesSwallowed ==
    /\ pc \in {"delta", "plan", "stream"}
    /\ failure' = "storage"
    /\ UNCHANGED <<pc, wikis, wiki_id, db, locals, unvisited, passes,
                   lost_entries, tc, gnp>>

\* lines 37, 42, 109, 122: a database call raises; nothing catches it
StorageRaises ==
    /\ pc \in {"delta", "plan", "stream"}
    /\ pc = "stream" => post_index <= MaxYield
    /\ pc' = "crashed" /\ failure' = "storage"
    /\ unvisited' = IF pc = "stream" THEN Len(threads_pages_to_get) - idx ELSE 0
    /\ LeaveFrame
    /\ UNCHANGED <<wikis, wiki_id, db>>
    /\ UNCHANGED <<passes, lost_entries, tc, gnp>>

\* line 65: the loop over the pages is exhausted, the pass returns
EndPass ==
    /\ pc = "tasks" /\ idx > Len(threads_pages_to_get)
    /\ pc' = "wikis"
    /\ wiki_id' = 0
    /\ LeaveFrame
    /\ UNCHANGED <<wikis, db, failure, unvisited>>
    /\ UNCHANGED <<passes, lost_entries, tc, gnp>>

Next ==
    \/ NextWiki \/ Finish
    \/ FetchNewPostsRss \/ FeedParseRaises \/ ParseThreadUrlRaises
    \/ FindNewPosts \/ PlanPages
    \/ SkipTask \/ StartFetch
    \/ YieldMeta \/ YieldPost \/ Exhausted
    \/ RemoteRaises \/ StorageRaises
    \/ EndPass

Spec == Init /\ [][Next]_vars

\* ---- try_cache (database/driver.py) ----
\* the values get can return and do_not_store can be: None, {}, [] and
\* NumData other values
PyNone == 0
EmptyDict == 1
EmptyList == 2
Values == 0..(NumData + 2)
\* the exceptions get can raise; KeyboardInterrupt is not an Exception
ExceptionTypes == {"TOMLKitError", "ConnectionError"}
Raisable == ExceptionTypes \cup {"KeyboardInterrupt"}
\* what a call of get does: return a value or raise
GetOutcomes == ({"return"} \X Values) \cup ({"raise"} \X Raisable)
\* the catch argument: the default None or a tuple of exception types
CatchNone == {"None"}
CatchArgs == {CatchNone} \cup SUBSET ExceptionTypes

\* lines 45-46: catch defaults to Exception
CatchOrDefault(catch) == IF catch = CatchNone THEN {"Exception"} ELSE catch
\* line 50: the handler matches the raised exception
Catches(catch, e) ==
    e \in catch \/ ("Exception" \in catch /\ e \in ExceptionTypes)
TcStoresUnlessNone(value, do_not_store) == value # PyNone
\* line 52
TcShouldStore(value, do_not_store) == value # do_not_store

mainvars == <<pc, wikis, wiki_id, db, locals, failure, unvisited, passes,
              lost_entries>>

\* try_cache is called: its arguments, and the data cached so far
CacheInit ==
    /\ pc = "done" /\ wikis = <<>> /\ wiki_id = 0
    /\ knownPosts = {} /\ knownThreads = {}
    /\ NoLocals
    /\ failure = "none" /\ unvisited = 0
    /\ passes = <<>> /\ lost_entries = <<>>
    /\ \E g \in GetOutcomes, d \in Values, c \in CatchArgs, old \in Values :
        tc = [pc |-> "call", get |-> g, do_not_store |-> d, catch |-> c,
              handler |-> {}, value |-> PyNone, cache |-> old,
              cache0 |-> old,
              stores |-> 0, raised |-> "none"]
    /\ gnp = GnpIdle

\* lines 45-47
TcEnter ==
    /\ tc.pc = "call"
    /\ tc' = [tc EXCEPT !.pc = "try", !.handler = CatchOrDefault(tc.catch),
                        !.value = tc.do_not_store]
    /\ UNCHANGED <<mainvars, gnp>>

\* lines 48-49: get returns
TcGetReturns ==
    /\ tc.pc = "try" /\ tc.get[1] = "return"
    /\ tc' = [tc EXCEPT !.pc = "check", !.value = tc.get[2]]
    /\ UNCHANGED <<mainvars, gnp>>

\* lines 50-51: get raises an exception the handler matches
TcGetRaisesCaught ==
    /\ tc.pc = "try" /\ tc.get[1] = "raise"
    /\ Catches(tc.handler, tc.get[2])
    /\ tc' = [tc EXCEPT !.pc = "check"]
    /\ UNCHANGED <<mainvars, gnp>>

\* lines 48-51: get raises an exception the handler does not match
TcGetRaisesUncaught ==
    /\ tc.pc = "try" /\ tc.get[1] = "raise"
    /\ ~Catches(tc.handler, tc.get[2])
    /\ tc' = [tc EXCEPT !.pc = "propagated", !.raised = tc.get[2]]
    /\ UNCHANGED <<mainvars, gnp>>

\* lines 52-53: store(value)
TcStore ==
    /\ tc.pc = "check"
    /\ TcShouldStore(tc.value, tc.do_not_store)
    /\ tc' = [tc EXCEPT !.pc = "returned", !.cache = tc.value,
                        !.stores = tc.stores + 1]
    /\ UNCHANGED <<mainvars, gnp>>

\* line 52: the value is not stored
TcNoStore ==
    /\ tc.pc = "check"
    /\ ~TcShouldStore(tc.value, tc.do_not_store)
    /\ tc' = [tc EXCEPT !.pc = "returned"]
    /\ UNCHANGED <<mainvars, gnp>>

CacheNext ==
    \/ TcEnter
    \/ TcGetReturns \/ TcGetRaisesCaught \/ TcGetRaisesUncaught
    \/ TcStore \/ TcNoStore

CacheSpec == CacheInit /\ [][CacheNext]_vars

\* ---- SqliteDriver.get_new_posts_for_user (database/driver.py) ----
\* the rows one query can return
MaxRows == 2
\* a row of a query result: the post's id, and the query that selected it
Row(p, q) == [id |-> p, q |-> q]
\* what a query answers: a list of rows, in any order
RowLists(q) == SeqsUpTo({Row(p, q) : p \in Posts}, MaxRows)
NoResult == [thread_posts |-> <<>>, post_replies |-> <<>>]

\* line 179
PostRepliesIds(post_replies) ==
    [i \in DOMAIN post_replies |-> post_replies[i].id]
KeepThreadPostInverted(thread_post, post_replies_ids) ==
    thread_post.id \in Range(post_replies_ids)
\* line 183
KeepThreadPost(thread_post, post_replies_ids) ==
    thread_post.id \notin Range(post_replies_ids)
\* lines 180-184
RemoveDuplicates(thread_posts, post_replies_ids) ==
    LET Keep(thread_post) == KeepThreadPost(thread_post, post_replies_ids)
    IN  SelectSeq(thread_posts, Keep)

\* get_new_posts_for_user is called: what the two queries will answer
UserPostsInit ==
    /\ pc = "done" /\ wikis = <<>> /\ wiki_id = 0
    /\ knownPosts = {} /\ knownThreads = {}
    /\ NoLocals
    /\ failure = "none" /\ unvisited = 0
    /\ passes = <<>> /\ lost_entries = <<>>
    /\ tc = TcIdle
    /\ \E t \in RowLists("get_posts_in_subscribed_threads"),
          r \in RowLists("get_replies_to_subscribed_posts") :
        gnp = [pc |-> "call", in_threads |-> t, as_replies |-> r,
               thread_posts |-> <<>>, post_replies |-> <<>>,
               post_replies_ids |-> <<>>, result |-> NoResult]

\* lines 169-172
GnpQueryThreadPosts ==
    /\ gnp.pc = "call"
    /\ gnp' = [gnp EXCEPT !.pc = "replies", !.thread_posts = gnp.in_threads]
    /\ UNCHANGED <<mainvars, tc>>

\* lines 174-177
GnpQueryPostReplies ==
    /\ gnp.pc = "replies"
    /\ gnp' = [gnp EXCEPT !.pc = "ids", !.post_replies = gnp.as_replies]
    /\ UNCHANGED <<mainvars, tc>>

\* line 179
GnpCollectIds ==
    /\ gnp.pc = "ids"
    /\ gnp' = [gnp EXCEPT !.pc = "filter",
                  !.post_replies_ids = PostRepliesIds(gnp.post_replies)]
    /\ UNCHANGED <<mainvars, tc>>

\* lines 180-184
GnpRemoveDuplicates ==
    /\ gnp.pc = "filter"
    /\ gnp' = [gnp EXCEPT !.pc = "return",
                  !.thread_posts = RemoveDuplicates(gnp.thread_posts,
                                                    gnp.post_replies_ids)]
    /\ UNCHANGED <<mainvars, tc>>

\* line 185
GnpReturn ==
    /\ gnp.pc = "return"
    /\ gnp' = [gnp EXCEPT !.pc = "returned",
                  !.result = [thread_posts |-> gnp.thread_posts,
                              post_replies |-> gnp.post_replies]]
    /\ UNCHANGED <<mainvars, tc>>

UserPostsNext ==
    \/ GnpQueryThreadPosts \/ GnpQueryPostReplies
    \/ GnpCollectIds \/ GnpRemoveDuplicates
    \/ GnpReturn

UserPostsSpec == UserPostsInit /\ [][UserPostsNext]_vars

TypeOK ==
    /\ pc \in {"wikis", "rss", "delta", "plan", "tasks", "stream", "done", "crashed"}
    /\ idx \in 1..(MaxFeed + 1)
    /\ unvisited \in 0..MaxFeed
    /\ post_index \in 0..(MaxYield + 1)
\* ---- properties ----
InTasks == pc \in {"tasks", "stream"}
PassEnded == pc = "tasks" /\ idx > Len(threads_pages_to_get)
IsFull(page) == page[2] = None
NoRepeat(s) == \A i, j \in 1..Len(s) : s[i] = s[j] => i = j
Unsorted == UnsortedPlan(new_posts, new_thread_ids)

\* C1: after the delta computation the filtered entry list is exactly the
\* feed entries whose post id was not recorded (entries minus known ids),
\* in feed order, none dropped and none duplicated.
C1_DeltaIsUnknownEntries ==
    pc = "plan" =>
        LET Unknown(e) == e[2] \notin known0
        IN  new_posts = SelectSeq(feed, Unknown)

\* C2: when a pass ends without any failure and every fetch contained the
\* posts it was made for, every feed entry whose post id was unknown at the
\* start of the pass has had its post passed to store_post.
C2_UnknownFeedPostsStored ==
    (PassEnded /\ failure = "none" /\ faithful) =>
        \A e \in unknown_entries : e[2] \in stored_posts

\* C3: in the sorted task list every full-thread task (post id None) comes
\* before every page-level task.
C3_FullThreadsFirst ==
    InTasks =>
        \A i, j \in 1..Len(threads_pages_to_get) :
            (i < j) => ~(~IsFull(threads_pages_to_get[i])
                         /\ IsFull(threads_pages_to_get[j]))
\* the sort had to move a full-thread task in front of a page-level task
C3_Witness ==
    /\ pc = "tasks"
    /\ \E i, j \in 1..Len(Unsorted) :
          i < j /\ ~IsFull(Unsorted[i]) /\ IsFull(Unsorted[j])

\* C4: the plan has one task per delta entry, (thread, None) exactly for the
\* entries whose thread is in new_thread_ids and (thread, post) for the
\* others, the full-thread tasks first, each group in the order of its
\* entries.
C4_PlanIsStablePartition ==
    InTasks =>
        LET InNew(e) == e[1] \in new_thread_ids
            NotInNew(e) == e[1] \notin new_thread_ids
            full == SelectSeq(new_posts, InNew)
            page == SelectSeq(new_posts, NotInNew)
        IN  threads_pages_to_get =
                [i \in 1..Len(full) |-> <<full[i][1], None>>] \o page
\* two different tasks of the same group were planned: their relative order
\* is the order of their entries
C4_Witness ==
    /\ pc = "tasks"
    /\ \E i, j \in 1..Len(threads_pages_to_get) :
          /\ i < j
          /\ IsFull(threads_pages_to_get[i]) = IsFull(threads_pages_to_get[j])
          /\ threads_pages_to_get[i] # threads_pages_to_get[j]

FullTasksOf(t) ==
    {i \in 1..Len(threads_pages_to_get) : threads_pages_to_get[i] = <<t, None>>}
EntriesOf(t) == {i \in 1..Len(new_posts) : new_posts[i][1] = t}

\* C5 as stated: for an entry list without a repeated (thread, post) pair
\* the plan has no two full-thread tasks of the same thread.
C5_NoTwoFullTasksPerThread ==
    (InTasks /\ NoRepeat(new_posts)) =>
        \A t \in Threads : Cardinality(FullTasksOf(t)) <= 1
\* C5 amended: the plan has exactly one full-thread task (t, None) per entry
\* whose thread t is in new_thread_ids and none for any other thread; so two
\* full-thread tasks of one thread occur exactly when two entries of the
\* same new thread are planned, never when no two entries share a thread.
C5_OneFullTaskPerEntryOfNewThread ==
    InTasks =>
        \A t \in Threads :
            Cardinality(FullTasksOf(t)) =
                IF t \in new_thread_ids THEN Cardinality(EntriesOf(t)) ELSE 0
\* two distinct posts of the same new thread were planned
C5_Witness ==
    /\ pc = "tasks" /\ NoRepeat(new_posts)
    /\ \E t \in Threads : Cardinality(FullTasksOf(t)) = 2
\* the step taken from the head of the task loop is the skip of the task
TaskInTurn == pc = "tasks" /\ idx <= Len(threads_pages_to_get)
SkipStep ==
    /\ pc' = "tasks" /\ idx' = idx + 1
    /\ outcome' = Append(outcome, "skip")
Visited == 1..Len(outcome)
SameThread(i, j) == threads_pages_to_get[i][1] = threads_pages_to_get[j][1]

\* C6: once thread T is in full_threads_already_seen, every later task of
\* the pass on thread T is skipped: no connection.thread call is made for it.
C6_NoFetchAfterFullThread ==
    [][(TaskInTurn /\ CurrentPage[1] \in full_threads_already_seen)
          => SkipStep]_vars
\* a full-thread task was fetched and recorded, a later task on the same
\* thread was skipped
C6_Witness ==
    \E i, j \in Visited :
        /\ i < j /\ SameThread(i, j)
        /\ IsFull(threads_pages_to_get[i]) /\ outcome[i] = "fetch"
        /\ outcome[j] = "skip"

\* C7: once post P is in posts_already_seen, every later task of the pass
\* whose post id is P is skipped, whatever its thread id.
C7_NoFetchOfSeenPost ==
    [][(TaskInTurn /\ CurrentPage[2] \in posts_already_seen)
          => SkipStep]_vars
\* a page-level task was skipped although the only task fetched before it
\* was on another thread
C7_Witness ==
    /\ outcome = <<"fetch", "skip">>
    /\ ~IsFull(threads_pages_to_get[2])
    /\ ~SameThread(1, 2)

HasFullTask(t) == FullTasksOf(t) # {}
\* C8: of the tasks on a thread that has a full-thread task only the first
\* one is fetched, every later one is skipped: connection.thread is invoked
\* at most once with (T, None) and never again for T afterwards.
C8_OnlyFirstFullTaskFetched ==
    \A j \in Visited :
        HasFullTask(threads_pages_to_get[j][1]) =>
            (outcome[j] = "fetch" <=> \A i \in 1..(j - 1) : ~SameThread(i, j))
\* a pass ended whose plan had two full-thread tasks of one thread
C8_Witness ==
    /\ PassEnded
    /\ \E t \in Threads :
          /\ Cardinality(FullTasksOf(t)) >= 2
          /\ Cardinality({i \in FullTasksOf(t) : outcome[i] = "fetch"}) = 1

\* C9: connection.thread is never invoked twice with the same
\* (thread id, post id) in one pass.
C9_NoFetchRepeated ==
    \A i, j \in Visited :
        (i < j /\ outcome[i] = "fetch" /\ outcome[j] = "fetch")
            => threads_pages_to_get[i] # threads_pages_to_get[j]

\* C10: what a task stored stays stored, and after the remote fetch of a
\* task raised the pass is not left before the remaining tasks of the plan
\* have been visited.
C10_RemainingTasksProcessed ==
    /\ stored_posts \subseteq knownPosts
    /\ stored_threads \subseteq knownThreads
    /\ failure = "remote" => unvisited = 0
Ended == pc \in {"done", "crashed"}

\* C11: a failure during one wiki's pass does not keep the later wikis from
\* their pass: when get_new_posts has ended, no supported wiki is left
\* unvisited.
C11_EveryWikiGetsItsPass ==
    Ended => wikis = <<>>

\* C12: when get_new_posts has ended, fetch_posts_with_context has been
\* invoked exactly once for each supported wiki and for no other wiki.
C12_OnePassPerWiki ==
    /\ \A i \in 1..Len(passes) : passes[i] \in Wikis
    /\ \A w \in Wikis : Cardinality({i \in 1..Len(passes) : passes[i] = w}) <= 1
    /\ Ended => \A w \in Wikis : \E i \in 1..Len(passes) : passes[i] = w

\* C13: when feedparser.parse raises, fetch_new_posts_rss returns no entry
\* and the pass goes on with an empty delta: it is not left by an error.
C13_FeedFailureIsEmptyFeed ==
    failure = "feed" => pc # "crashed"

\* C14: a feed item whose permalink cannot be parsed is dropped alone: the
\* fetch is not aborted and the other items of the feed are not lost; no
\* entry without a post id is handed to the planner.
C14_MalformedItemDroppedAlone ==
    /\ failure = "item" => (pc # "crashed" /\ lost_entries = <<>>)
    /\ \A i \in 1..Len(new_posts) : new_posts[i][2] # None

\* C15: when a database call of a pass raises, the error leaves the pass:
\* from then on no task is visited, no remote fetch is started and nothing
\* is written to the database.
C15_StorageFailureStopsPass ==
    [][/\ failure' = "storage" => pc' = "crashed"
       /\ failure = "storage" =>
            UNCHANGED <<knownPosts, knownThreads, outcome, passes>>]_vars
\* a database call raised while tasks of the plan were still to be visited
C15_Witness ==
    failure = "storage" /\ pc = "crashed" /\ unvisited > 0

\* the skip predicate of the tracker, on the task in turn
SkipCondition ==
    \/ IsFull(CurrentPage) /\ CurrentPage[1] \in full_threads_already_seen
    \/ ~IsFull(CurrentPage) /\ CurrentPage[2] \in posts_already_seen

\* C16: the task in turn is skipped exactly when it is a full-thread task
\* whose thread is in full_threads_already_seen or a page-level task whose
\* post is in posts_already_seen.
C16_SkipIffShouldSkip ==
    [][TaskInTurn => (SkipStep <=> SkipCondition)]_vars
\* a page-level task was fetched although posts had been seen before it
C16_Witness ==
    /\ outcome = <<"fetch", "fetch">>
    /\ ~IsFull(threads_pages_to_get[2])
    /\ posts_already_seen # {}

\* C17: when the generator of a task is exhausted, every post it yielded is
\* in posts_already_seen, and the thread of the task is added to
\* full_threads_already_seen exactly when the task is a full-thread task.
C17_RecordAfterFetch ==
    [][(pc = "stream" /\ pc' = "tasks") =>
          /\ yielded \subseteq posts_already_seen'
          /\ IsFull(CurrentPage) =>
                full_threads_already_seen' =
                    full_threads_already_seen \cup {CurrentPage[1]}
          /\ ~IsFull(CurrentPage) =>
                full_threads_already_seen' = full_threads_already_seen]_vars
\* a page-level task was fetched to exhaustion and yielded posts; its thread
\* is not marked
C17_Witness ==
    /\ pc = "tasks" /\ idx = 2 /\ outcome = <<"fetch">>
    /\ ~IsFull(threads_pages_to_get[1])
    /\ posts_already_seen # {}
    /\ full_threads_already_seen = {}

\* C18: skipping a task starts no fetch, writes nothing to the database and
\* leaves posts_already_seen and full_threads_already_seen unchanged; the
\* loop goes on with the next task.
C18_SkipIsNoOp ==
    [][(TaskInTurn /\ SkipCondition) =>
          /\ pc' = "tasks" /\ idx' = idx + 1
          /\ UNCHANGED <<knownPosts, knownThreads, stored_posts,
                         stored_threads, posts_already_seen,
                         full_threads_already_seen, post_index, yielded>>]_vars
\* the last visited task was skipped in a pass that had stored posts
C18_Witness ==
    /\ pc = "tasks" /\ outcome # <<>>
    /\ outcome[Len(outcome)] = "skip"
    /\ stored_posts # {}

\* C20: all tasks of a plan on one thread are of the same kind, all
\* full-thread tasks or all page-level tasks.
C20_OneKindPerThread ==
    InTasks =>
        \A i, j \in 1..Len(threads_pages_to_get) :
            SameThread(i, j) =>
                IsFull(threads_pages_to_get[i]) = IsFull(threads_pages_to_get[j])
\* two different page-level tasks on the same thread were planned
C20_Witness ==
    /\ pc = "tasks"
    /\ \E i, j \in 1..Len(threads_pages_to_get) :
          /\ i < j /\ SameThread(i, j)
          /\ ~IsFull(threads_pages_to_get[i])
          /\ threads_pages_to_get[i] # threads_pages_to_get[j]

TcEnded == tc.pc \in {"returned", "propagated"}
\* the exception get raised is of a type listed in catch (any Exception
\* when catch is left to its default)
TcListed ==
    /\ tc.get[1] = "raise"
    /\ \/ tc.catch = CatchNone /\ tc.get[2] # "KeyboardInterrupt"
       \/ tc.catch # CatchNone /\ tc.get[2] \in tc.catch

\* C19: try_cache calls store at most once, and exactly when get returned a
\* value different from do_not_store; otherwise the cached data is left as
\* it was; an exception of a type not listed in catch propagates, a listed
\* one does not.
C19_StoreIffGotNewValue ==
    /\ tc.stores <= 1
    /\ tc.stores = 0 => tc.cache = tc.cache0
    /\ TcEnded =>
        /\ tc.stores = 1 <=>
              (tc.get[1] = "return" /\ tc.get[2] # tc.do_not_store)
        /\ tc.stores = 1 => tc.cache = tc.get[2]
        /\ tc.pc = "propagated" <=> (tc.get[1] = "raise" /\ ~TcListed)
        /\ tc.pc = "propagated" => tc.raised = tc.get[2]
\* get returned {} with do_not_store = {} (the overrides of
\* get_global_config): try_cache returned without storing
C19_Witness ==
    /\ tc.pc = "returned"
    /\ tc.get = <<"return", EmptyDict>> /\ tc.do_not_store = EmptyDict
    /\ tc.stores = 0 /\ tc.cache = tc.cache0

\* C21: the seen bookkeeping never diverges from what was stored: at every
\* step of a pass the seen posts are exactly the posts passed to store_post in
\* this pass, and a thread enters full_threads_already_seen only in the step
\* that ends a fetch of the full-thread task of that thread, after its
\* metadata was passed to store_thread and every post the fetch yielded was
\* passed to store_post and is among the seen posts.
C21_SeenMatchesStored ==
    [][/\ posts_already_seen' = stored_posts'
       /\ \A t \in full_threads_already_seen' \ full_threads_already_seen :
            /\ pc = "stream" /\ pc' = "tasks"
            /\ CurrentPage = <<t, None>>
            /\ outcome'[idx] = "fetch"
            /\ t \in stored_threads
            /\ yielded \subseteq stored_posts
            /\ yielded \subseteq posts_already_seen]_vars

\* a pass in which a full thread was recorded after its fetch yielded a post
C21_Witness ==
    /\ pc = "tasks"
    /\ full_threads_already_seen # {}
    /\ stored_posts # {}
    /\ \E i \in 1..(idx - 1) :
        /\ IsFull(threads_pages_to_get[i])
        /\ outcome[i] = "fetch"

\* the ids of the rows of a list
IdsOf(rows) == {rows[i].id : i \in DOMAIN rows}
GnpReturned == gnp.pc = "returned"

\* C22: in a result of get_new_posts_for_user no post id is in both
\* thread_posts and post_replies; post_replies is the answer of the replies
\* query unchanged, and thread_posts is the answer of the thread-posts query
\* without the rows whose post is among the replies, the other rows kept as
\* they were and in their order.
C22_ReplyWinsOverThreadPost ==
    GnpReturned =>
        LET NotAReply(row) == row.id \notin IdsOf(gnp.as_replies)
        IN  /\ IdsOf(gnp.result.thread_posts)
                  \cap IdsOf(gnp.result.post_replies) = {}
            /\ gnp.result.post_replies = gnp.as_replies
            /\ gnp.result.thread_posts = SelectSeq(gnp.in_threads, NotAReply)

\* a call in which one post was answered by both queries and another post
\* only by the thread-posts query
C22_Witness ==
    /\ GnpReturned
    /\ IdsOf(gnp.in_threads) \cap IdsOf(gnp.as_replies) # {}
    /\ IdsOf(gnp.in_threads) \ IdsOf(gnp.as_replies) # {}
    /\ gnp.result.thread_posts # <<>>

====
